---- MODULE Spec2Model ----
(***************************************************************************)
(* Model of src/app.py: the Streamlit premium calculator.                  *)
(*                                                                         *)
(* Every interaction with the page reruns the script top to bottom.  The   *)
(* state that survives a rerun is the cached rate table, the widget values *)
(* and st.session_state["items"]; what calc_total returned and what the    *)
(* page shows exist only in the run whose "calculate" button was pressed.  *)
(*                                                                         *)
(* Money and multipliers are Python floats in the source.  They are kept   *)
(* here as exact fixed-point numbers counted in 1/Scale, so that           *)
(* amount / 10_000 is exact for every whole amount; binary floating-point  *)
(* rounding error is not modelled.                                         *)
(*                                                                         *)
(* DataFrame columns are record fields: age = 年齡, product_code = 商品代碼, *)
(* product_name = 商品名稱, amount = 保額(元), qty = 份數, rate = 每單位費率, *)
(* premium = 當年保費(元), cumulative = 累計(元).                            *)
(***************************************************************************)
EXTENDS Integers, Sequences, FiniteSets

\* Bounds of the model.  The age inputs run over 0..MaxAge (0..80 in the
\* program), the basket holds at most MaxItems items and rates/ at most
\* MaxFiles files.
MaxAge == 2
MaxItems == 2
MaxFiles == 2

\* 10_000, the largest divisor of unit_to_multiplier: one unit of the fixed point.
Scale == 10000

VARIABLES rates, sex, start_age, end_age, include_end, items, calc, page

vars == <<rates, sex, start_age, end_age, include_end, items, calc, page>>

(***************************************************************************)
(* Small helpers on sequences.                                            *)
(***************************************************************************)
RECURSIVE Concat(_)
Concat(ss) == IF ss = <<>> THEN <<>> ELSE Head(ss) \o Concat(Tail(ss))

RECURSIVE SumSeq(_)
SumSeq(s) == IF s = <<>> THEN 0 ELSE Head(s) + SumSeq(Tail(s))

\* A column of a frame.
Premiums(df) == [i \in DOMAIN df |-> df[i].premium]

(***************************************************************************)
(* The rates/ directory: the CSV files the model draws the table from.     *)
(***************************************************************************)
Codes == <<"A001", "B002">>

CodeRank(c) == CHOOSE i \in DOMAIN Codes : Codes[i] = c

ProductName(c) == IF c = "A001" THEN "TestLife" ELSE "TestRider"

\* A run of rows in a CSV file: ages lo..hi of one product, unit and sex,
\* with rate base + age.  sex is the raw cell text, before normalisation.
RateRows(code, unit, rawsex, lo, hi, base) ==
    [i \in 1..(hi - lo + 1) |->
        [product_code |-> code, product_name |-> ProductName(code),
         unit |-> unit, age |-> lo + i - 1, sex |-> rawsex,
         rate |-> base + lo + i - 1]]

\* The files rates/ may hold: a product per sex, or a product of both sexes.
RateFiles ==
    { [name |-> "a_m.csv",
       rows |-> RateRows("A001", "per_10k", "M", 0, MaxAge, 1)],
      [name |-> "a_f.csv",
       rows |-> RateRows("A001", "per_10k", "F", 0, MaxAge, 1)],
      [name |-> "a_new.csv",
       rows |-> RateRows("A001", "per_10k", "m", 1, 1, 5)
                \o RateRows("A001", "per_1k", "f ", 0, 0, 2)],
      [name |-> "b.csv",
       rows |-> RateRows("B002", "per_1", "M", 0, 1, 0)
                \o RateRows("B002", "per_100", "F", 0, MaxAge, 1)] }

\* The listings glob.glob can give: up to MaxFiles distinct files, in an order
\* the program does not control.
RECURSIVE Listings(_)
Listings(n) ==
    IF n = 0 THEN { <<>> }
    ELSE LET shorter == Listings(n - 1)
         IN shorter \cup
            { Append(d, f) : d \in { x \in shorter : Len(x) = n - 1 },
                             f \in RateFiles }

RateDirs ==
    { d \in Listings(MaxFiles) : \A i, j \in DOMAIN d : i # j => d[i] # d[j] }

\* str.upper().str.strip() on the cell texts the files hold.
upper_strip(s) ==
    CASE s = "f " -> "F"
      [] s = "m"  -> "M"
      [] OTHER    -> s

\* load_rates: concatenate the files in order, tag each row with its file,
\* normalise sex.  No files gives the empty frame.
load_rates(files) ==
    LET tagged(f) == [i \in DOMAIN f.rows |->
                        [product_code |-> f.rows[i].product_code,
                         product_name |-> f.rows[i].product_name,
                         unit |-> f.rows[i].unit,
                         age |-> f.rows[i].age,
                         sex |-> upper_strip(f.rows[i].sex),
                         rate |-> f.rows[i].rate,
                         source_file |-> f.name]]
    IN Concat([k \in DOMAIN files |-> tagged(files[k])])

\* products / product_options: the distinct (code, name) pairs, sorted.
RECURSIVE SortPairs(_)
SortPairs(S) ==
    IF S = {} THEN <<>>
    ELSE LET m == CHOOSE p \in S : \A q \in S : CodeRank(p[1]) <= CodeRank(q[1])
         IN <<m>> \o SortPairs(S \ {m})

product_options(rates_df) ==
    SortPairs({ <<rates_df[i].product_code, rates_df[i].product_name>> :
                i \in DOMAIN rates_df })

(***************************************************************************)
(* unit_to_multiplier, in 1/Scale.                                         *)
(***************************************************************************)
\* unit_to_multiplier with a silent fallback: an unknown tag priced as per_1.
unit_to_multiplier_fallback(unit, amount) ==
    CASE unit = "per_10k" -> [status |-> "value", value |-> (amount * Scale) \div 10000]
      [] unit = "per_1k"  -> [status |-> "value", value |-> (amount * Scale) \div 1000]
      [] OTHER            -> [status |-> "value", value |-> amount * Scale]

\* A float result is [status |-> "value", value |-> v]; the else branch raises.
unit_to_multiplier(unit, amount) ==
    CASE unit = "per_10k" -> [status |-> "value", value |-> (amount * Scale) \div 10000]
      [] unit = "per_1k"  -> [status |-> "value", value |-> (amount * Scale) \div 1000]
      [] unit = "per_1"   -> [status |-> "value", value |-> amount * Scale]
      [] OTHER -> [status |-> "raised", exc |-> "ValueError",
                   kind |-> "unit_unsupported", args |-> <<unit>>]

(***************************************************************************)
(* calc_total.                                                             *)
(***************************************************************************)
Raise(exc, kind, args) ==
    [status |-> "raised", exc |-> exc, kind |-> kind, args |-> args]

\* age_range with the end age always included.
age_range_inclusive(s, e, inc) ==
    IF e + 1 - s <= 0 THEN <<>> ELSE [i \in 1..(e + 1 - s) |-> s + i - 1]

\* list(range(start_age, end_age + (1 if include_end else 0)))
age_range(s, e, inc) ==
    LET n == e + (IF inc THEN 1 ELSE 0) - s
    IN IF n <= 0 THEN <<>> ELSE [i \in 1..n |-> s + i - 1]

\* rates_df[(product_code == code) & (sex == sex)]
sub_rows(rates_df, code, sx) ==
    SelectSeq(rates_df, LAMBDA r : r.product_code = code /\ r.sex = sx)

\* Series.unique().tolist(): the distinct values in order of first appearance.
RECURSIVE unique(_)
unique(s) ==
    IF s = <<>> THEN <<>>
    ELSE LET front == unique(SubSeq(s, 1, Len(s) - 1))
             x == s[Len(s)]
         IN IF \E i \in DOMAIN front : front[i] = x THEN front
            ELSE Append(front, x)

\* rate_map keeping the first row of an age.
rate_map_first(sub) ==
    [a \in { sub[i].age : i \in DOMAIN sub } |->
        LET first == CHOOSE i \in DOMAIN sub :
                       /\ sub[i].age = a
                       /\ \A j \in DOMAIN sub : sub[j].age = a => i <= j
        IN sub[first].rate]

\* sub.set_index("age")["rate"].to_dict(): a later row of an age overwrites
\* an earlier one.
rate_map(sub) ==
    [a \in { sub[i].age : i \in DOMAIN sub } |->
        LET last == CHOOSE i \in DOMAIN sub :
                      /\ sub[i].age = a
                      /\ \A j \in DOMAIN sub : sub[j].age = a => j <= i
        IN sub[last].rate]

\* missing_ages stopping at the first gap.
missing_ages_first(ages, rmap) ==
    LET all == SelectSeq(ages, LAMBDA a : a \notin DOMAIN rmap)
    IN IF all = <<>> THEN <<>> ELSE <<all[1]>>

\* missing = [a for a in ages if a not in rate_map]
missing_ages(ages, rmap) == SelectSeq(ages, LAMBDA a : a \notin DOMAIN rmap)

\* The body of "for item in items": the rows the item adds, or the error.
price_item(rates_df, item, sx, ages) ==
    LET code == item.product_code
        sub == sub_rows(rates_df, code, sx)
        units == unique([i \in DOMAIN sub |-> sub[i].unit])
        unit == units[1]
        um == unit_to_multiplier(unit, item.amount)
        multiplier == um.value * item.qty
        rmap == rate_map(sub)
        missing == missing_ages(ages, rmap)
    IN IF sub = <<>> THEN Raise("ValueError", "not_found", <<code, sx>>)
       ELSE IF Len(units) # 1
            THEN Raise("ValueError", "unit_inconsistent", <<code, units>>)
       ELSE IF um.status = "raised" THEN um
       ELSE IF missing # <<>>
            THEN Raise("ValueError", "missing_age", <<code, missing>>)
       ELSE [status |-> "rows",
             rows |-> [k \in DOMAIN ages |->
                        [age |-> ages[k], product_code |-> code,
                         product_name |-> item.product_name, unit |-> unit,
                         amount |-> item.amount, qty |-> item.qty,
                         rate |-> rmap[ages[k]],
                         premium |-> rmap[ages[k]] * multiplier]]]

\* item_loop that stops at a failing item and keeps the rows it has.
RECURSIVE item_loop_partial(_, _, _, _, _, _)
item_loop_partial(rates_df, its, sx, ages, i, rows_year) ==
    IF i > Len(its) THEN [status |-> "rows", rows |-> rows_year]
    ELSE LET r == price_item(rates_df, its[i], sx, ages)
         IN IF r.status = "raised"
            THEN (IF rows_year = <<>> THEN r
                  ELSE [status |-> "rows", rows |-> rows_year])
            ELSE item_loop_partial(rates_df, its, sx, ages, i + 1,
                                   rows_year \o r.rows)

\* The loop over the basket from item i on, rows_year holding the rows so far.
RECURSIVE item_loop(_, _, _, _, _, _)
item_loop(rates_df, its, sx, ages, i, rows_year) ==
    IF i > Len(its) THEN [status |-> "rows", rows |-> rows_year]
    ELSE LET r == price_item(rates_df, its[i], sx, ages)
         IN IF r.status = "raised" THEN r
            ELSE item_loop(rates_df, its, sx, ages, i + 1, rows_year \o r.rows)

RECURSIVE SortAges(_)
SortAges(S) ==
    IF S = {} THEN <<>>
    ELSE LET m == CHOOSE a \in S : \A b \in S : a <= b
         IN <<m>> \o SortAges(S \ {m})

\* groupby_sum taking each age's first row in place of the sum.
groupby_first(df_detail) ==
    LET keys == SortAges({ df_detail[i].age : i \in DOMAIN df_detail })
        of_age(a) == SelectSeq(df_detail, LAMBDA r : r.age = a)
    IN [k \in DOMAIN keys |->
          [age |-> keys[k], premium |-> of_age(keys[k])[1].premium]]

\* df_detail.groupby("年齡", as_index=False)["當年保費(元)"].sum().sort_values("年齡")
groupby_sum(df_detail) ==
    LET keys == SortAges({ df_detail[i].age : i \in DOMAIN df_detail })
        of_age(a) == SelectSeq(df_detail, LAMBDA r : r.age = a)
    IN [k \in DOMAIN keys |->
          [age |-> keys[k],
           premium |-> SumSeq(Premiums(of_age(keys[k])))]]

\* cumsum that copies the column.
cumsum_copy(df) ==
    [k \in DOMAIN df |->
       [age |-> df[k].age, premium |-> df[k].premium,
        cumulative |-> df[k].premium]]

\* df_year_sum["累計(元)"] = df_year_sum["當年保費(元)"].cumsum()
cumsum(df) ==
    [k \in DOMAIN df |->
       [age |-> df[k].age, premium |-> df[k].premium,
        cumulative |-> SumSeq(Premiums(SubSeq(df, 1, k)))]]

calc_total(rates_df, its, sx, s, e, inc) ==
    IF e < s THEN Raise("ValueError", "range", <<s, e>>)
    ELSE LET ages == age_range(s, e, inc)
             r == item_loop(rates_df, its, sx, ages, 1, <<>>)
         IN IF r.status = "raised" THEN r
            \* pd.DataFrame([]) has no columns: groupby("年齡") raises KeyError.
            ELSE IF r.rows = <<>> THEN Raise("KeyError", "no_column", <<"age">>)
            ELSE LET df_year_sum == cumsum(groupby_sum(r.rows))
                 IN [status |-> "returned",
                     total |-> SumSeq(Premiums(df_year_sum)),
                     df_detail |-> r.rows,
                     df_year_sum |-> df_year_sum]

(***************************************************************************)
(* The "calculate" handler: what the page shows.                           *)
(***************************************************************************)
\* round(): to the nearest whole, halves to the even neighbour.
Round(x) ==
    LET q == x \div Scale
        r == x % Scale
    IN IF 2 * r < Scale THEN q
       ELSE IF 2 * r > Scale THEN q + 1
       ELSE IF q % 2 = 0 THEN q ELSE q + 1

\* (年齡, 商品代碼) order of sort_values.
RowLeq(a, b) ==
    \/ a.age < b.age
    \/ a.age = b.age /\ CodeRank(a.product_code) <= CodeRank(b.product_code)

\* sort_values that leaves the frame as it is.
sort_values_none(df) == df

\* DataFrame.sort_values(["年齡", "商品代碼"]): a stable sort.
RECURSIVE sort_values(_)
sort_values(df) ==
    IF df = <<>> THEN <<>>
    ELSE LET front == sort_values(SubSeq(df, 1, Len(df) - 1))
             x == df[Len(df)]
             n == Cardinality({ i \in DOMAIN front : RowLeq(front[i], x) })
         IN SubSeq(front, 1, n) \o <<x>> \o SubSeq(front, n + 1, Len(front))

render(c) ==
    IF c.status = "raised"
    THEN [status |-> "error", message |-> <<c.kind, c.args>>]
    ELSE [status |-> "result",
          metric |-> Round(c.total),
          show_year |-> [k \in DOMAIN c.df_year_sum |->
                           [age |-> c.df_year_sum[k].age,
                            premium |-> Round(c.df_year_sum[k].premium),
                            cumulative |-> Round(c.df_year_sum[k].cumulative)]],
          show_detail |-> sort_values(
                           [k \in DOMAIN c.df_detail |->
                              [c.df_detail[k] EXCEPT !.premium = Round(@)]]),
          csv_year |-> c.df_year_sum,
          csv_detail |-> c.df_detail]

(***************************************************************************)
(* The page as a state machine.                                            *)
(***************************************************************************)
Idle == [status |-> "idle"]
Blank == [status |-> "blank"]

\* What the basket form offers: number_input takes any amount >= 1000 and
\* any qty >= 1; the model draws (amount, qty) from these.
ItemInputs == { <<1000, 2>>, <<20000, 1>> }

\* The first run: the table is loaded and cached, the widgets hold their
\* defaults (the first sex, the widest window, the end age included) and the
\* basket is empty.
Init ==
    /\ rates \in { load_rates(d) : d \in RateDirs }
    /\ sex = "M"
    /\ start_age = 0
    /\ end_age = MaxAge
    /\ include_end = TRUE
    /\ items = <<>>
    /\ calc = Idle
    /\ page = Blank

\* rates.empty: st.warning and st.stop(), nothing below runs.
Running == rates # <<>>

\* A rerun in which the calculate button is not pressed shows no result.
NoCalc == calc' = Idle /\ page' = Blank

SetSex ==
    /\ Running
    /\ \E s \in {"M", "F"} : s # sex /\ sex' = s
    /\ NoCalc
    /\ UNCHANGED <<rates, start_age, end_age, include_end, items>>

SetStartAge ==
    /\ Running
    /\ \E a \in 0..MaxAge : a # start_age /\ start_age' = a
    /\ NoCalc
    /\ UNCHANGED <<rates, sex, end_age, include_end, items>>

SetEndAge ==
    /\ Running
    /\ \E a \in 0..MaxAge : a # end_age /\ end_age' = a
    /\ NoCalc
    /\ UNCHANGED <<rates, sex, start_age, include_end, items>>

SetIncludeEnd ==
    /\ Running
    /\ include_end' = ~include_end
    /\ NoCalc
    /\ UNCHANGED <<rates, sex, start_age, end_age, items>>

\* add_btn: pick.split("｜", 1) and append to st.session_state["items"].
\* Choosing the product, amount and qty and pressing the button is one step:
\* the reruns in between change nothing but the three inputs.
AddItem ==
    /\ Running
    /\ Len(items) < MaxItems
    /\ \E k \in DOMAIN product_options(rates), in \in ItemInputs :
         items' = Append(items,
                    [product_code |-> product_options(rates)[k][1],
                     product_name |-> product_options(rates)[k][2],
                     amount |-> in[1], qty |-> in[2]])
    /\ NoCalc
    /\ UNCHANGED <<rates, sex, start_age, end_age, include_end>>

\* The clear button is drawn only while the basket is not empty; st.rerun().
ClearItems ==
    /\ Running
    /\ items # <<>>
    /\ items' = <<>>
    /\ NoCalc
    /\ UNCHANGED <<rates, sex, start_age, end_age, include_end>>

\* calc_btn, disabled while the basket is empty.
Calc ==
    /\ Running
    /\ items # <<>>
    /\ calc' = calc_total(rates, items, sex, start_age, end_age, include_end)
    /\ page' = render(calc')
    /\ UNCHANGED <<rates, sex, start_age, end_age, include_end, items>>

Next ==
    \/ SetSex
    \/ SetStartAge
    \/ SetEndAge
    \/ SetIncludeEnd
    \/ AddItem
    \/ ClearItems
    \/ Calc

Spec == Init /\ [][Next]_vars

(***************************************************************************)
(* Vocabulary of the properties, stated on the rate table, the basket and  *)
(* the window rather than through calc_total.                              *)
(***************************************************************************)
Called == calc.status # "idle"
Returned == calc.status = "returned"
Raised == calc.status = "raised"

\* The target age sequence as the specification words it.
NumAges == IF include_end THEN end_age - start_age + 1 ELSE end_age - start_age
TargetAges == { a \in 0..MaxAge : start_age <= a /\ a < start_age + NumAges }

\* Rows of the table for a product, of any sex and of the requested sex.
RowsOf(code) == { i \in DOMAIN rates : rates[i].product_code = code }
RowsFor(code) == { i \in RowsOf(code) : rates[i].sex = sex }
UnitsFor(code) == { rates[i].unit : i \in RowsFor(code) }
AgesFor(code) == { rates[i].age : i \in RowsFor(code) }
AbsentAges(code) == TargetAges \ AgesFor(code)

Divisor(unit) ==
    CASE unit = "per_10k" -> 10000
      [] unit = "per_1k"  -> 1000
      [] unit = "per_1"   -> 1
      [] OTHER            -> 0

\* An item resolves: rows for the requested sex, carrying one supported unit.
Resolves(it) ==
    /\ RowsFor(it.product_code) # {}
    /\ Cardinality(UnitsFor(it.product_code)) = 1
    /\ \A u \in UnitsFor(it.product_code) : Divisor(u) # 0

\* An item passes every check of the loop.
ItemValid(it) == Resolves(it) /\ AbsentAges(it.product_code) = {}

\* The first basket item that does not pass, 0 when all pass.
FirstInvalid ==
    IF \A i \in DOMAIN items : ItemValid(items[i]) THEN 0
    ELSE CHOOSE i \in DOMAIN items :
           /\ ~ItemValid(items[i])
           /\ \A j \in 1..(i - 1) : ItemValid(items[j])

RECURSIVE AscendingSeq(_)
AscendingSeq(S) ==
    IF S = {} THEN <<>>
    ELSE LET m == CHOOSE a \in S : \A b \in S : a <= b
         IN <<m>> \o AscendingSeq(S \ {m})

(***************************************************************************)
(* C1  Degenerate window: with start_age = end_age and include_end false,  *)
(* a basket whose items all resolve is priced without error: total 0, an   *)
(* empty detail table and an empty year summary.                           *)
(***************************************************************************)
C1_DegenerateWindow ==
    (/\ Called
     /\ start_age = end_age
     /\ ~include_end
     /\ \A i \in DOMAIN items : Resolves(items[i]))
    => (/\ Returned
        /\ calc.total = 0
        /\ calc.df_detail = <<>>
        /\ calc.df_year_sum = <<>>)

(***************************************************************************)
(* C2  Output ordering.  As claimed: the detail rows calc_total returns    *)
(* are sorted ascending by (age, product_code) and the year summary        *)
(* ascending by age.                                                       *)
(***************************************************************************)
SortedByAgeCode(df) ==
    \A k \in 1..(Len(df) - 1) :
        \/ df[k].age < df[k + 1].age
        \/ /\ df[k].age = df[k + 1].age
           /\ CodeRank(df[k].product_code) <= CodeRank(df[k + 1].product_code)

StrictlyByAge(df) == \A k \in 1..(Len(df) - 1) : df[k].age < df[k + 1].age

C2_ReturnedDetailSorted ==
    Returned => SortedByAgeCode(calc.df_detail) /\ StrictlyByAge(calc.df_year_sum)

\* C2 as amended: the year summary is ascending by age; the detail rows
\* calc_total returns, which are the rows exported, are grouped by basket
\* item in basket order with ascending ages inside each item; the detail
\* table the page displays is sorted ascending by (age, product_code).
C2_OutputOrdering ==
    Returned =>
        /\ StrictlyByAge(calc.df_year_sum)
        /\ Len(calc.df_detail) = Len(items) * NumAges
        /\ \A k \in DOMAIN calc.df_detail :
              /\ calc.df_detail[k].product_code
                    = items[((k - 1) \div NumAges) + 1].product_code
              /\ (k % NumAges # 0 =>
                    calc.df_detail[k].age < calc.df_detail[k + 1].age)
        /\ page.csv_detail = calc.df_detail
        /\ Len(page.show_detail) = Len(calc.df_detail)
        /\ SortedByAgeCode(page.show_detail)

\* A priced basket of two products in descending code order over two ages.
C2_Witness ==
    /\ Returned
    /\ Len(items) = 2
    /\ CodeRank(items[1].product_code) > CodeRank(items[2].product_code)
    /\ NumAges >= 2
    /\ ~SortedByAgeCode(calc.df_detail)

(***************************************************************************)
(* C3  Unit consistency: when the rows of a requested product carry two    *)
(* different units, on rows of any sex, calc_total for a basket holding    *)
(* that product fails, for either requested sex, and never prices the      *)
(* product with one of the units.  Whatever check fails first, the call    *)
(* the claim describes does not return.                                    *)
(***************************************************************************)
AllUnitsOf(code) == { rates[i].unit : i \in RowsOf(code) }

C3_UnitConsistency ==
    (/\ Called
     /\ \E i \in DOMAIN items :
           Cardinality(AllUnitsOf(items[i].product_code)) >= 2)
    => Raised

(***************************************************************************)
(* C4  Duplicate rate rows.  As claimed: a priced row uses the rate of the *)
(* first row of its (product_code, sex, age) in table order, never that of *)
(* a later duplicate.                                                      *)
(***************************************************************************)
RowsAt(code, a) == { i \in RowsFor(code) : rates[i].age = a }
FirstRowAt(code, a) == CHOOSE i \in RowsAt(code, a) : \A j \in RowsAt(code, a) : i <= j
LastRowAt(code, a) == CHOOSE i \in RowsAt(code, a) : \A j \in RowsAt(code, a) : j <= i

C4_FirstMatchWins ==
    Returned =>
        \A k \in DOMAIN calc.df_detail :
            calc.df_detail[k].rate
              = rates[FirstRowAt(calc.df_detail[k].product_code,
                                 calc.df_detail[k].age)].rate

\* C4 as amended: when the table holds several rows of one (product_code,
\* sex, age), calc_total either fails or uses the rate of the last such row
\* in table order; it uses no average and no earlier duplicate's rate.
C4_LastMatchWins ==
    Returned =>
        \A k \in DOMAIN calc.df_detail :
            /\ RowsAt(calc.df_detail[k].product_code, calc.df_detail[k].age) # {}
            /\ calc.df_detail[k].rate
                 = rates[LastRowAt(calc.df_detail[k].product_code,
                                   calc.df_detail[k].age)].rate

\* A priced row whose age has two rows with different rates.
C4_Witness ==
    /\ Returned
    /\ \E k \in DOMAIN calc.df_detail :
         \E i, j \in RowsAt(calc.df_detail[k].product_code, calc.df_detail[k].age) :
            i < j /\ rates[i].rate # rates[j].rate

(***************************************************************************)
(* C5  Missing-age reporting.  As claimed: if some basket item lacks a     *)
(* rate row for at least one target age, calc_total fails with the         *)
(* missing-age error, whose ages are exactly the target ages absent for    *)
(* that product, in ascending order.  Stated for items the table has rows  *)
(* for under the requested sex, the case most favourable to the claim.     *)
(***************************************************************************)
C5_AnyGapIsReported ==
    (/\ Called
     /\ \E i \in DOMAIN items :
           /\ RowsFor(items[i].product_code) # {}
           /\ AbsentAges(items[i].product_code) # {})
    => (/\ Raised
        /\ calc.kind = "missing_age"
        /\ calc.args[2] = AscendingSeq(AbsentAges(calc.args[1])))

\* C5 as amended: a basket in which some item lacks a target age is never
\* priced; the call fails with the missing-age error when the first item to
\* fail a check has rows for the requested sex with a single supported unit
\* (otherwise an earlier check of that item, product/sex not found,
\* inconsistent unit or unsupported unit, fails first), and the missing-age
\* error always lists exactly the target ages absent for the product it
\* names, every gap, in ascending order.
C5_MissingAgeReporting ==
    /\ (Called /\ \E i \in DOMAIN items : AbsentAges(items[i].product_code) # {})
          => Raised
    /\ (Called /\ start_age <= end_age /\ FirstInvalid # 0
          /\ Resolves(items[FirstInvalid]))
          => (/\ Raised
              /\ calc.kind = "missing_age"
              /\ calc.args[1] = items[FirstInvalid].product_code)
    /\ (Raised /\ calc.kind = "missing_age")
          => (/\ calc.args[2] # <<>>
              /\ calc.args[2] = AscendingSeq(AbsentAges(calc.args[1])))

\* The missing-age error with more than one gap, the first not being the
\* gap next to the covered ages.
C5_Witness ==
    /\ Raised
    /\ calc.kind = "missing_age"
    /\ Len(calc.args[2]) >= 2
    /\ AgesFor(calc.args[1]) \cap TargetAges # {}

(***************************************************************************)
(* C6  No partial results: when a validation fails (end_age < start_age,   *)
(* or a basket item, the first or a later one, has no rows for the sex,    *)
(* mixed units, an unsupported unit or a missing age) the call ends in an  *)
(* error and returns no total, detail or year summary, the page shows the  *)
(* error only, and the rate table and the basket are left as they were.    *)
(***************************************************************************)
ValidationFails == end_age < start_age \/ FirstInvalid # 0

C6_NoPartialResults ==
    [][calc' # Idle =>
        /\ rates' = rates
        /\ items' = items
        /\ (ValidationFails =>
              /\ calc'.status = "raised"
              /\ DOMAIN calc' \cap {"total", "df_detail", "df_year_sum"} = {}
              /\ page'.status = "error"
              /\ DOMAIN page' = {"status", "message"})]_vars

\* The second item fails after the first was priced.
C6_Witness ==
    /\ Raised
    /\ Len(items) = 2
    /\ FirstInvalid = 2
    /\ start_age <= end_age
    /\ NumAges >= 1

(***************************************************************************)
(* C7  Cumulative monotonicity: on every successful call (rates are not    *)
(* negative, amounts and quantities positive) the cumulative column is the *)
(* prefix sum of the per-age totals in ascending age order, never          *)
(* decreases with age, and ends at the returned total.                     *)
(***************************************************************************)
RECURSIVE PrefixSum(_, _)
PrefixSum(df, k) == IF k = 0 THEN 0 ELSE PrefixSum(df, k - 1) + df[k].premium

C7_CumulativeMonotonic ==
    Returned =>
        LET y == calc.df_year_sum
        IN /\ y # <<>>
           /\ StrictlyByAge(y)
           /\ \A k \in DOMAIN y : y[k].cumulative = PrefixSum(y, k)
           /\ \A k \in 1..(Len(y) - 1) : y[k].cumulative <= y[k + 1].cumulative
           /\ y[Len(y)].cumulative = calc.total

\* A summary of several ages whose running total grows.
C7_Witness ==
    /\ Returned
    /\ Len(calc.df_year_sum) >= 2
    /\ calc.df_year_sum[1].cumulative > 0
    /\ calc.df_year_sum[1].cumulative < calc.total

(***************************************************************************)
(* C8  Aggregation additivity: on every successful call the year summary   *)
(* has exactly one row per target age, whose total is the sum of           *)
(* year_premium over the detail rows of that age, which is the sum over    *)
(* the basket items of what each item alone is charged at that age; the    *)
(* summary does not depend on the order of the basket, and holds when one  *)
(* product_code appears in several items.                                  *)
(***************************************************************************)
Alone(i) == calc_total(rates, <<items[i]>>, sex, start_age, end_age, include_end)
Reversed == [i \in DOMAIN items |-> items[Len(items) + 1 - i]]

\* The premiums of the first k detail rows that are of age a.
RECURSIVE SumAtAge(_, _, _)
SumAtAge(d, a, k) ==
    IF k = 0 THEN 0
    ELSE SumAtAge(d, a, k - 1) + (IF d[k].age = a THEN d[k].premium ELSE 0)

\* What the first i items, each priced alone, are charged in summary row k.
RECURSIVE SumAlone(_, _)
SumAlone(k, i) ==
    IF i = 0 THEN 0 ELSE SumAlone(k, i - 1) + Alone(i).df_year_sum[k].premium

C8_AggregationAdditive ==
    Returned =>
        LET y == calc.df_year_sum
            d == calc.df_detail
        IN /\ { y[k].age : k \in DOMAIN y } = TargetAges
           /\ Len(y) = Cardinality(TargetAges)
           /\ \A k \in DOMAIN y :
                 /\ y[k].premium = SumAtAge(d, y[k].age, Len(d))
                 /\ y[k].premium = SumAlone(k, Len(items))
           /\ calc_total(rates, Reversed, sex, start_age, end_age,
                         include_end).df_year_sum = y

\* Two items of one product with different amounts, over several ages.
C8_Witness ==
    /\ Returned
    /\ Len(items) = 2
    /\ items[1].product_code = items[2].product_code
    /\ items[1].amount # items[2].amount
    /\ Len(calc.df_year_sum) >= 2
    /\ calc.df_year_sum[2].premium > calc.df_detail[2].premium

(***************************************************************************)
(* C9  Detail coverage: on every successful call the target ages are       *)
(* start_age..end_age (end_age - start_age + 1 ages) when include_end is   *)
(* set and start_age..end_age-1 (end_age - start_age ages) when it is not, *)
(* and the detail holds exactly one row per (target age, basket item),     *)
(* each item's rows in ascending age order, none outside the window.       *)
(***************************************************************************)
C9_DetailCoverage ==
    Returned =>
        LET d == calc.df_detail
            last == IF include_end THEN end_age ELSE end_age - 1
        IN /\ Len(d) = Len(items) * NumAges
           /\ \A i \in DOMAIN items : \A a \in start_age..last :
                 LET r == d[(i - 1) * NumAges + (a - start_age) + 1]
                 IN /\ r.age = a
                    /\ r.product_code = items[i].product_code
                    /\ r.product_name = items[i].product_name
                    /\ r.amount = items[i].amount
                    /\ r.qty = items[i].qty
           /\ \A k \in DOMAIN d : start_age <= d[k].age /\ d[k].age <= last

\* A priced window that leaves its end age out, for a basket of two items.
C9_Witness ==
    /\ Returned
    /\ ~include_end
    /\ Len(items) = 2
    /\ Len(calc.df_detail) = 2 * (end_age - start_age)
    /\ end_age - start_age >= 2

(***************************************************************************)
(* C10  Unit conversion: every detail row's year_premium is                *)
(* rate * (amount / d) * qty with d = 10000 for per_10k, 1000 for per_1k   *)
(* and 1 for per_1; any other unit tag makes unit_to_multiplier fail with  *)
(* the unsupported-unit error, and a basket holding a product whose single *)
(* unit is such a tag is never priced with some default divisor.           *)
(***************************************************************************)
UnitTags == { rates[i].unit : i \in DOMAIN rates } \cup {"per_10k", "per_1k", "per_1"}

C10_UnitConversion ==
    /\ Returned =>
          \A k \in DOMAIN calc.df_detail :
              LET r == calc.df_detail[k]
              IN /\ Divisor(r.unit) # 0
                 /\ r.premium * Divisor(r.unit) = r.rate * r.amount * r.qty * Scale
    /\ \A u \in UnitTags, in \in ItemInputs :
          LET m == unit_to_multiplier(u, in[1])
          IN IF Divisor(u) = 0
             THEN m.status = "raised" /\ m.kind = "unit_unsupported" /\ m.args = <<u>>
             ELSE m.status = "value" /\ m.value * Divisor(u) = in[1] * Scale
    /\ (Called /\ \E i \in DOMAIN items :
                     \E u \in UnitsFor(items[i].product_code) : Divisor(u) = 0)
          => Raised
    /\ (Called /\ start_age <= end_age /\ FirstInvalid # 0
          /\ Cardinality(UnitsFor(items[FirstInvalid].product_code)) = 1
          /\ \A u \in UnitsFor(items[FirstInvalid].product_code) : Divisor(u) = 0)
          => (Raised /\ calc.kind = "unit_unsupported")

\* A fractional number of units priced (per_10k with amount 1000), and the
\* table holding a tag outside the three.
C10_Witness ==
    /\ Returned
    /\ \E k \in DOMAIN calc.df_detail :
          /\ calc.df_detail[k].unit = "per_10k"
          /\ calc.df_detail[k].amount = 1000
          /\ calc.df_detail[k].qty = 2
          /\ calc.df_detail[k].premium > 0
    /\ \E u \in UnitTags : Divisor(u) = 0

====
